---- MODULE Spec2Model ----
(***************************************************************************)
(* A model of github.com/iand/pontium, package hlog (the go1.21 build of   *)
(* Handler in hlog/handler.go): the configuration snapshots built by the   *)
(* With* family, the enablement checks and the render-and-emit operation   *)
(* Handle.                                                                 *)
(*                                                                         *)
(* Handlers live in a heap (the sequence handlers, a *Handler is an index  *)
(* into it).  The attrLevels map of a Handler is a Go map, a reference: it *)
(* is an index into the heap maps.  Slices (groups, attrs, the per-key     *)
(* entry lists) are modelled by value: every append of the source is made  *)
(* on a slice that clone has just built by appending to a nil or empty     *)
(* slice, whose backing array no other Handler holds.                      *)
(***************************************************************************)
EXTENDS Integers, Sequences, FiniteSets, TLC

VARIABLES
    handlers,   \* heap of Handler structs; handlers[1] is new(Handler)
    maps,       \* heap of attrLevels maps: key -> sequence of attrValueLevel
    derivs,     \* log of the With* calls made: receiver, argument, result
    calls,      \* log of the Handle invocations, each with its position
    sinks,      \* per io.Writer: the sequence of Write calls it received
    queries,    \* log of the Enabled queries and their answers
    evals,      \* the last application of a function of the rendering
    until       \* the goroutine running wait.Until and its context

vars == <<handlers, maps, derivs, calls, sinks, queries, evals, until>>

---------------------------------------------------------------------------
(* Bounds of the model *)

\* number of operations performed: With* calls, Handle invocations and
\* Enabled queries
MaxOps == 3

\* With* and Handle calls made by a logger configured step by step
MaxChain == 5

---------------------------------------------------------------------------
(* slog levels *)

LevelDebug == -4
LevelInfo == 0
LevelWarn == 4
LevelError == 8

---------------------------------------------------------------------------
(* ANSI colour directives; ^[ stands for the ESC byte *)

colorReset == "^[[0m"
colorRed == "^[[1;31m"
colorGreen == "^[[1;32m"
colorYellow == "^[[1;33m"
colorBlue == "^[[1;34m"

---------------------------------------------------------------------------
(* slog.Value and slog.Attr *)

StringValue(s) == [kind |-> "String", str |-> s]
IntValue(n) == [kind |-> "Int64", num |-> n]
GroupValue(as) == [kind |-> "Group", group |-> as]
\* the zero Value: KindAny holding nil
ZeroValue == [kind |-> "Any"]
\* a Value of KindFloat64: the float (-1)^neg * digit * 10^exp, digit one
\* decimal digit; digit 0 is the float zero
FloatValue(neg, digit, exp) ==
    [kind |-> "Float64", neg |-> neg, digit |-> digit, exp |-> exp]
\* a Value of KindDuration; the model counts durations in milliseconds
DurationValue(d) == [kind |-> "Duration", ms |-> d]
\* a Value of KindLogValuer: a LogValuer whose LogValue method returns v
LogValuerValue(v) == [kind |-> "LogValuer", lv |-> v]

Attr(k, v) == [Key |-> k, Value |-> v]
\* slog.Attr{}
EmptyAttr == Attr("", ZeroValue)

\* Value.Equal: kinds first, then the payload of that kind; groups
\* element-wise
RECURSIVE ValueEqual(_, _)
ValueEqual(v, w) ==
    IF v.kind # w.kind THEN FALSE
    ELSE CASE v.kind = "String" -> v.str = w.str
           [] v.kind = "Int64" -> v.num = w.num
           [] v.kind = "Float64" ->
                /\ v.digit = w.digit
                /\ v.digit = 0 \/ (v.neg = w.neg /\ v.exp = w.exp)
           [] v.kind = "Duration" -> v.ms = w.ms
           [] v.kind = "LogValuer" -> v.lv = w.lv
           [] v.kind = "Group" ->
                /\ Len(v.group) = Len(w.group)
                /\ \A i \in 1..Len(v.group) :
                      /\ v.group[i].Key = w.group[i].Key
                      /\ ValueEqual(v.group[i].Value, w.group[i].Value)
           [] OTHER -> TRUE

\* Attr.Equal
AttrEqual(a, b) == a.Key = b.Key /\ ValueEqual(a.Value, b.Value)

---------------------------------------------------------------------------
(* Text.  Strings are TLA+ strings; Chars gives the characters of the      *)
(* strings that the model passes through quote.                            *)

RECURSIVE Spaces(_)
Spaces(n) == IF n <= 0 THEN "" ELSE " " \o Spaces(n - 1)

\* fmt's %-Ns: pad on the right to width n, never truncate
PadRight(s, n) == s \o Spaces(n - Len(s))
\* fmt's %Ns: pad on the left to width n, never truncate
PadLeft(s, n) == Spaces(n - Len(s)) \o s

Digit(d) == CASE d = 0 -> "0" [] d = 1 -> "1" [] d = 2 -> "2" [] d = 3 -> "3"
              [] d = 4 -> "4" [] d = 5 -> "5" [] d = 6 -> "6" [] d = 7 -> "7"
              [] d = 8 -> "8" [] d = 9 -> "9"

RECURSIVE Digits(_)
Digits(n) == IF n < 10 THEN Digit(n) ELSE Digits(n \div 10) \o Digit(n % 10)

\* strconv.Itoa / strconv.FormatInt(n, 10)
Itoa(n) == IF n < 0 THEN "-" \o Digits(0 - n) ELSE Digits(n)

Chars(s) ==
    CASE s = "" -> <<>>
      [] s = "api" -> <<"a", "p", "i">>
      [] s = "v" -> <<"v">>
      [] s = "w" -> <<"w">>
      [] s = "a b" -> <<"a", " ", "b">>
      [] s = "1" -> <<"1">>
      [] s = "<nil>" -> <<"<", "n", "i", "l", ">">>

\* strings.ContainsAny(s, " ")
ContainsSpace(s) == \E i \in 1..Len(Chars(s)) : Chars(s)[i] = " "

\* quote: fmt's %q when s holds a space (the strings of the model hold no
\* character that %q escapes), s itself otherwise
quote(s) == IF ContainsSpace(s) THEN "\"" \o s \o "\"" ELSE s

RECURSIVE Concat(_)
\* the text made of the pieces, in order
Concat(parts) ==
    IF Len(parts) = 0 THEN "" ELSE Head(parts) \o Concat(Tail(parts))

RECURSIVE DigitChars(_)
\* the decimal digits of n >= 0, one character each
DigitChars(n) ==
    IF n < 10 THEN << Digit(n) >>
    ELSE Append(DigitChars(n \div 10), Digit(n % 10))

\* the fraction of a second of time.Duration.String, f in milliseconds: a
\* point and the digits without trailing zeros, nothing when f is zero
fracChars(f) ==
    IF f = 0 THEN <<>>
    ELSE IF f % 100 = 0 THEN << ".", Digit(f \div 100) >>
    ELSE IF f % 10 = 0 THEN << ".", Digit(f \div 100), Digit((f \div 10) % 10) >>
    ELSE << ".", Digit(f \div 100), Digit((f \div 10) % 10), Digit(f % 10) >>

\* time.Duration.String, as characters: "0s" for zero; below one second the
\* milliseconds with the unit ms; from one second on the seconds with their
\* fraction, before them the minutes when there are any, before those the
\* hours when there are any
durationString(d) ==
    LET u == IF d < 0 THEN 0 - d ELSE d
        neg == IF d < 0 THEN << "-" >> ELSE <<>>
    IN  IF d = 0 THEN << "0", "s" >>
        ELSE IF u < 1000 THEN neg \o DigitChars(u) \o << "m", "s" >>
        ELSE LET secs == u \div 1000
                 mins == secs \div 60
                 hours == mins \div 60
                 sec == DigitChars(secs % 60) \o fracChars(u % 1000) \o << "s" >>
                 min == IF mins > 0 THEN DigitChars(mins % 60) \o << "m" >>
                        ELSE <<>>
                 hour == IF hours > 0 THEN DigitChars(hours) \o << "h" >>
                         ELSE <<>>
             IN  neg \o hour \o min \o sec

\* strings.HasSuffix(s, suffix) on characters
HasSuffix(cs, suffix) ==
    /\ Len(cs) >= Len(suffix)
    /\ SubSeq(cs, Len(cs) - Len(suffix) + 1, Len(cs)) = suffix

\* a trimming that takes off the zero seconds only
trimDurationSecondsOnly(cs) ==
    IF HasSuffix(cs, << "m", "0", "s" >>) THEN SubSeq(cs, 1, Len(cs) - 2) ELSE cs

\* the two trimmings writeAttr makes of a duration's text: s[:len(s)-2]
\* when it ends in "m0s", then again when it ends in "h0m"
trimDuration(cs) ==
    LET s1 == IF HasSuffix(cs, << "m", "0", "s" >>)
              THEN SubSeq(cs, 1, Len(cs) - 2) ELSE cs
    IN  IF HasSuffix(s1, << "h", "0", "m" >>)
        THEN SubSeq(s1, 1, Len(s1) - 2) ELSE s1

RECURSIVE Zeros(_)
Zeros(n) == IF n <= 0 THEN "" ELSE "0" \o Zeros(n - 1)

\* strconv.FormatFloat(v, 'f', -1, 64): the shortest digits, no exponent
fmtF(v) ==
    (IF v.neg THEN "-" ELSE "")
        \o (IF v.digit = 0 THEN "0"
            ELSE IF v.exp >= 0 THEN Digit(v.digit) \o Zeros(v.exp)
            ELSE "0." \o Zeros(0 - v.exp - 1) \o Digit(v.digit))

\* the %e form of strconv.FormatFloat with the shortest digits: the digit,
\* e, the sign of the exponent and at least two digits of it
fmtE(v) ==
    (IF v.neg THEN "-" ELSE "") \o Digit(v.digit) \o "e"
        \o (IF v.exp < 0 THEN "-" ELSE "+")
        \o (LET x == IF v.exp < 0 THEN 0 - v.exp ELSE v.exp
            IN  IF x < 10 THEN "0" \o Digits(x) ELSE Digits(x))

\* strconv.FormatFloat(v, 'g', -1, 64): %e when the decimal exponent is
\* below -4 or, the precision being the shortest, at least 6; %f otherwise
fmtG(v) ==
    IF v.digit # 0 /\ (v.exp < -4 \/ v.exp >= 6) THEN fmtE(v) ELSE fmtF(v)

\* the float test of writeAttr: abs == 0 || 1e-6 <= v && v < 1e21, the two
\* comparisons made on v itself
floatIsPlain(v) ==
    \/ v.digit = 0
    \/ /\ ~v.neg /\ v.exp >= -6
       /\ v.neg \/ v.exp < 21

\* Value.String for the kinds it is called on: Handle and writeAttr call it
\* on flattened leaves, never on a group
ValueString(v) ==
    CASE v.kind = "String" -> v.str
      [] v.kind = "Int64" -> Itoa(v.num)
      [] v.kind = "Float64" -> fmtG(v)
      [] v.kind = "Duration" -> Concat(durationString(v.ms))
      [] OTHER -> "<nil>"

RECURSIVE Resolve(_)
\* Value.Resolve: LogValue is called until the result is no LogValuer
Resolve(v) == IF v.kind = "LogValuer" THEN Resolve(v.lv) ELSE v

---------------------------------------------------------------------------
(* Group prefix and flattening *)

RECURSIVE Join(_, _)
\* strings.Join(elems, sep)
Join(elems, sep) ==
    IF Len(elems) = 0 THEN ""
    ELSE IF Len(elems) = 1 THEN elems[1]
    ELSE elems[1] \o sep \o Join(Tail(elems), sep)

groupPrefixDropsDot(h) ==
    IF Len(h.groups) = 0 THEN "" ELSE Join(h.groups, ".")

\* Handler.groupPrefix
groupPrefix(h) ==
    IF Len(h.groups) = 0 THEN "" ELSE Join(h.groups, ".") \o "."

RECURSIVE flattenAttr(_, _)
RECURSIVE flattenGroup(_, _)
\* the loop of flattenAttr over a.Value.Group()
flattenGroup(gp, sas) ==
    IF Len(sas) = 0 THEN <<>>
    ELSE flattenAttr(gp, Head(sas)) \o flattenGroup(gp, Tail(sas))

\* a flattenAttr without the test for the empty attribute
flattenAttrKeepsEmpty(prefix, a0) ==
    LET a == [a0 EXCEPT !.Value = Resolve(a0.Value)] IN
    IF a.Value.kind = "Group" THEN
        LET gp == IF a.Key # "" THEN prefix \o a.Key \o "." ELSE prefix
        IN  flattenGroup(gp, a.Value.group)
    ELSE << [a EXCEPT !.Key = prefix \o a.Key] >>

\* flattenAttr
flattenAttr(prefix, a0) ==
    LET a == [a0 EXCEPT !.Value = Resolve(a0.Value)] IN
    IF a.Value.kind = "Group" THEN
        LET gp == IF a.Key # "" THEN prefix \o a.Key \o "." ELSE prefix
        IN  flattenGroup(gp, a.Value.group)
    ELSE IF AttrEqual(a, EmptyAttr) THEN <<>>
    ELSE << [a EXCEPT !.Key = prefix \o a.Key] >>

---------------------------------------------------------------------------
(* Inputs: the arguments the callers of the model pass *)

\* levels passed to WithLevel
DeriveLevels == {LevelWarn}
\* names passed to WithPrefix
PrefixNames == {"svc"}
\* the io.Writers passed to WithWriter; a nil writer field means os.Stdout
Writers == {"buf"}
NilWriter == "nil"
Stdout == "os.Stdout"
\* attributes and levels passed to WithAttrLevel
OverrideAttrs == {Attr("k", StringValue("v"))}
OverrideLevels == {LevelDebug, LevelWarn}
\* names passed to WithGroup
GroupNames == {"", "G"}

aSvc == Attr("svc", StringValue("api"))
aKV == Attr("k", StringValue("v"))
aKW == Attr("k", StringValue("w"))
aX == Attr("x", IntValue(1))
aNested == Attr("g", GroupValue(<<aKV, Attr("", GroupValue(<<aSvc>>))>>))

\* attribute lists passed to WithAttrs
AttrLists == { <<aSvc>>, <<aKV>>, <<EmptyAttr, aNested>> }

\* the records passed to Handle: slog.Record{Time, Message, Level, PC} and
\* its attributes.  timeStr is r.Time.Format("15:04:05.000000"), sourceStr
\* the file:line of r.PC.
Record(level, as) ==
    [Level |-> level, Message |-> "started", timeIsZero |-> FALSE,
     timeStr |-> "10:04:05.000000", PC |-> 1, sourceStr |-> "main.go:10",
     Attrs |-> as]

Records ==
    { Record(LevelDebug, as) : as \in { <<>>, <<aKV>>, <<aX, aKV>>, <<aKW>> } }
    \cup { Record(LevelInfo, as) : as \in { <<aKV>>, <<aSvc, aX>> } }

---------------------------------------------------------------------------
(* Handler and the With* family *)

\* new(Handler): the zero value; a nil map is the reference 0
ZeroHandler ==
    [minLevel |-> LevelInfo, nocolor |-> FALSE, source |-> FALSE,
     groups |-> <<>>, attrs |-> <<>>, writer |-> NilWriter,
     prefixName |-> <<>>, attrLevels |-> 0]

EmptyMap == [k \in {} |-> <<>>]

\* the contents of the map behind reference ref in the heap mp
MapOf(mp, ref) == IF ref = 0 THEN EmptyMap ELSE mp[ref]

\* a clone that keeps the receiver's map instead of copying it
cloneSharesMap(h, mp) == [h |-> h, maps |-> mp]

\* a clone that leaves the writer out of the struct literal
cloneDropsWriter(h, mp) ==
    [h |-> [h EXCEPT !.attrLevels = Len(mp) + 1, !.writer = NilWriter],
     maps |-> Append(mp, MapOf(mp, h.attrLevels))]

\* Handler.clone: a new struct with every field copied; groups, attrs and
\* each entry list copied into fresh slices, the map made anew
clone(h, mp) ==
    [h |-> [h EXCEPT !.attrLevels = Len(mp) + 1],
     maps |-> Append(mp, [k \in DOMAIN MapOf(mp, h.attrLevels) |->
                              MapOf(mp, h.attrLevels)[k]])]

\* the With* call returns: the new Handler is stored, the call logged
Return(op, recv, arg, c) ==
    /\ handlers' = Append(handlers, c.h)
    /\ maps' = c.maps
    /\ derivs' = Append(derivs, [op |-> op, recv |-> recv, arg |-> arg,
                                 result |-> Len(handlers) + 1])
    /\ UNCHANGED <<calls, sinks, queries, evals, until>>

WithLevel(i, level) ==
    /\ i \in 1..Len(handlers)
    /\ LET c == clone(handlers[i], maps)
       IN  Return("WithLevel", i, level,
                  [c EXCEPT !.h.minLevel = level])

WithoutColor(i) ==
    /\ i \in 1..Len(handlers)
    /\ LET c == clone(handlers[i], maps)
       IN  Return("WithoutColor", i, TRUE, [c EXCEPT !.h.nocolor = TRUE])

WithPrefix(i, name) ==
    /\ i \in 1..Len(handlers)
    /\ LET c == clone(handlers[i], maps)
       IN  Return("WithPrefix", i, name, [c EXCEPT !.h.prefixName = <<name>>])

WithWriter(i, w) ==
    /\ i \in 1..Len(handlers)
    /\ LET c == clone(handlers[i], maps)
       IN  Return("WithWriter", i, w, [c EXCEPT !.h.writer = w])

WithSource(i) ==
    /\ i \in 1..Len(handlers)
    /\ LET c == clone(handlers[i], maps)
       IN  Return("WithSource", i, TRUE, [c EXCEPT !.h.source = TRUE])

\* a registration that replaces the entries of the key by the new one
setAttrLevelOverwrites(c, a, level) ==
    LET h2 == IF c.h.attrLevels = 0
              THEN [c.h EXCEPT !.attrLevels = Len(c.maps) + 1]
              ELSE c.h
        mp == IF c.h.attrLevels = 0 THEN Append(c.maps, EmptyMap) ELSE c.maps
        m == mp[h2.attrLevels]
        m2 == [k \in DOMAIN m \cup {a.Key} |->
                  IF k = a.Key
                  THEN << [value |-> a.Value, level |-> level] >>
                  ELSE m[k]]
    IN  [h |-> h2, maps |-> [mp EXCEPT ![h2.attrLevels] = m2]]

\* h2.attrLevels[a.Key] = append(h2.attrLevels[a.Key], attrValueLevel{...}),
\* after making the map when it is nil
setAttrLevel(c, a, level) ==
    LET h2 == IF c.h.attrLevels = 0
              THEN [c.h EXCEPT !.attrLevels = Len(c.maps) + 1]
              ELSE c.h
        mp == IF c.h.attrLevels = 0 THEN Append(c.maps, EmptyMap) ELSE c.maps
        m == mp[h2.attrLevels]
        old == IF a.Key \in DOMAIN m THEN m[a.Key] ELSE <<>>
        m2 == [k \in DOMAIN m \cup {a.Key} |->
                  IF k = a.Key
                  THEN Append(old, [value |-> a.Value, level |-> level])
                  ELSE m[k]]
    IN  [h |-> h2, maps |-> [mp EXCEPT ![h2.attrLevels] = m2]]

WithAttrLevel(i, a, level) ==
    /\ i \in 1..Len(handlers)
    /\ LET c == clone(handlers[i], maps)
       IN  Return("WithAttrLevel", i, [attr |-> a, level |-> level],
                  setAttrLevel(c, a, level))

RECURSIVE flattenAll(_, _)
\* the loop of WithAttrs: the flattened leaves of each attribute, in order
flattenAll(gp, as) ==
    IF Len(as) = 0 THEN <<>>
    ELSE flattenAttr(gp, Head(as)) \o flattenAll(gp, Tail(as))

WithAttrs(i, as) ==
    /\ i \in 1..Len(handlers)
    /\ LET c == clone(handlers[i], maps)
           gp == groupPrefix(handlers[i])
       IN  Return("WithAttrs", i, as,
                  [c EXCEPT !.h.attrs = c.h.attrs \o flattenAll(gp, as)])

\* a WithGroup that keeps one group name, the last one given
WithGroupReplaces(i, name) ==
    /\ i \in 1..Len(handlers)
    /\ LET c == clone(handlers[i], maps)
       IN  Return("WithGroup", i, name, [c EXCEPT !.h.groups = <<name>>])

\* a WithGroup that puts the new name in front of the keys already carried
WithGroupReprefixes(i, name) ==
    /\ i \in 1..Len(handlers)
    /\ LET c == clone(handlers[i], maps)
       IN  Return("WithGroup", i, name,
                  [c EXCEPT !.h.groups = Append(c.h.groups, name),
                            !.h.attrs = [j \in 1..Len(c.h.attrs) |->
                                [c.h.attrs[j] EXCEPT
                                    !.Key = name \o "." \o c.h.attrs[j].Key]]])

WithGroup(i, name) ==
    /\ i \in 1..Len(handlers)
    /\ IF name = ""
       THEN /\ derivs' = Append(derivs, [op |-> "WithGroup", recv |-> i,
                                         arg |-> name, result |-> i])
            /\ UNCHANGED <<handlers, maps, calls, sinks, queries, evals, until>>
       ELSE LET c == clone(handlers[i], maps)
            IN  Return("WithGroup", i, name,
                       [c EXCEPT !.h.groups = Append(c.h.groups, name)])

\* any With* call on any Handler made so far
Derive ==
    \E i \in 1..Len(handlers) :
        \/ \E level \in DeriveLevels : WithLevel(i, level)
        \/ WithoutColor(i)
        \/ \E name \in PrefixNames : WithPrefix(i, name)
        \/ \E w \in Writers : WithWriter(i, w)
        \/ WithSource(i)
        \/ \E a \in OverrideAttrs, level \in OverrideLevels :
              WithAttrLevel(i, a, level)
        \/ \E as \in AttrLists : WithAttrs(i, as)
        \/ \E name \in GroupNames : WithGroup(i, name)

---------------------------------------------------------------------------
(* The enablement checks *)

\* len(h.attrLevels)
lenAttrLevels(h, mp) == Cardinality(DOMAIN MapOf(mp, h.attrLevels))

EnabledByLevelOnly(h, mp, level) == level >= h.minLevel

\* Handler.Enabled
Enabled(h, mp, level) ==
    IF lenAttrLevels(h, mp) = 0 THEN level >= h.minLevel ELSE TRUE

\* Handler.attrHasMinLevel
attrHasMinLevel(h, mp, a, level) ==
    LET m == MapOf(mp, h.attrLevels) IN
    /\ a.Key \in DOMAIN m
    /\ \E j \in 1..Len(m[a.Key]) :
          /\ ValueEqual(m[a.Key][j].value, a.Value)
          /\ level >= m[a.Key][j].level

RECURSIVE scanRecordAttrs(_, _, _, _, _)
\* r.Attrs(func(a) bool {...}) of enabledForRecord: Record.Attrs calls the
\* function on each attribute in turn and stops when it returns false; the
\* function returns false when enabled is already set, and otherwise sets
\* enabled to attrHasMinLevel(a, r.Level) and returns enabled
scanRecordAttrs(h, mp, as, level, enabled) ==
    IF Len(as) = 0 THEN enabled
    ELSE IF enabled THEN enabled
    ELSE LET e == attrHasMinLevel(h, mp, Head(as), level)
         IN  IF e THEN scanRecordAttrs(h, mp, Tail(as), level, e) ELSE e

enabledForRecordAlways(h, mp, r) == TRUE

\* a check that lets a record pass when its level reaches that of any
\* registered override, whatever attributes it has
enabledForRecordAnyOverride(h, mp, r) ==
    \/ r.Level >= h.minLevel
    \/ \E k \in DOMAIN MapOf(mp, h.attrLevels) :
          \E j \in 1..Len(MapOf(mp, h.attrLevels)[k]) :
              r.Level >= MapOf(mp, h.attrLevels)[k][j].level

\* Handler.enabledForRecord
enabledForRecord(h, mp, r) ==
    IF r.Level >= h.minLevel THEN TRUE
    ELSE IF \E j \in 1..Len(h.attrs) : attrHasMinLevel(h, mp, h.attrs[j], r.Level)
         THEN TRUE
    ELSE scanRecordAttrs(h, mp, r.Attrs, r.Level, FALSE)

\* the check at the head of Handle: whether Handle goes on to format and
\* write r; it returns nil at once when overrides are registered and
\* enabledForRecord refuses r
handleEmits(h, mp, r) ==
    ~(lenAttrLevels(h, mp) > 0 /\ ~enabledForRecord(h, mp, r))

---------------------------------------------------------------------------
(* Rendering *)

\* the switch on r.Level and fmt.Sprintf("%02d", r.Level)
levelKind(level) ==
    CASE level = LevelError -> "error"
      [] level = LevelWarn -> "warn"
      [] level = LevelInfo -> "info"
      [] level = LevelDebug -> "debug"
      [] OTHER -> IF level < 0 THEN "-" \o Digits(0 - level)
                  ELSE IF level < 10 THEN "0" \o Digits(level)
                  ELSE Digits(level)

\* the label with its colour directives
kindLabel(h, level) ==
    LET kind == levelKind(level) IN
    IF ~h.nocolor THEN
        IF level >= LevelError THEN colorRed \o PadRight(kind, 5) \o colorReset
        ELSE IF level >= LevelWarn
             THEN colorYellow \o PadRight(kind, 5) \o colorReset
        ELSE IF level >= LevelInfo
             THEN colorGreen \o PadRight(kind, 5) \o colorReset
        ELSE kind
    ELSE PadRight(kind, 5)

\* Handler.writeAttr: what it appends to the builder
writeAttr(h, a) ==
    LET rv == Resolve(a.Value) IN
    " " \o (IF ~h.nocolor THEN colorBlue ELSE "") \o a.Key
        \o (IF ~h.nocolor THEN colorReset ELSE "") \o "="
        \o (CASE rv.kind = "Float64" ->
                    IF floatIsPlain(rv) THEN fmtF(rv) ELSE fmtG(rv)
               [] rv.kind = "Duration" ->
                    Concat(trimDuration(durationString(rv.ms)))
               [] OTHER -> quote(ValueString(rv)))

IsPrefixKey(h, key) == h.prefixName # <<>> /\ key = h.prefixName[1]

RECURSIVE carriedAttrs(_, _, _)
\* the loop of Handle over h.attrs; st is the builder's text and the prefix
carriedAttrs(h, as, st) ==
    IF Len(as) = 0 THEN st
    ELSE LET a == Head(as) IN
         IF AttrEqual(a, EmptyAttr) THEN carriedAttrs(h, Tail(as), st)
         ELSE carriedAttrs(h, Tail(as),
                  [b |-> st.b \o writeAttr(h, a),
                   prefix |-> IF IsPrefixKey(h, a.Key)
                              THEN ValueString(a.Value) ELSE st.prefix])

RECURSIVE flatAttrsFirstWins(_, _, _)
\* a loop over the record's leaves that keeps a prefix already captured
flatAttrsFirstWins(h, fas, st) ==
    IF Len(fas) = 0 THEN st
    ELSE LET fa == Head(fas) IN
         IF AttrEqual(fa, EmptyAttr) THEN flatAttrsFirstWins(h, Tail(fas), st)
         ELSE IF IsPrefixKey(h, fa.Key)
              THEN flatAttrsFirstWins(h, Tail(fas),
                       [st EXCEPT !.prefix = IF st.prefix = ""
                                             THEN ValueString(fa.Value)
                                             ELSE st.prefix])
         ELSE flatAttrsFirstWins(h, Tail(fas),
                                 [st EXCEPT !.b = st.b \o writeAttr(h, fa)])

RECURSIVE flatAttrs(_, _, _)
\* the loop of Handle over flattenAttr(gp, a) for one record attribute
flatAttrs(h, fas, st) ==
    IF Len(fas) = 0 THEN st
    ELSE LET fa == Head(fas) IN
         IF AttrEqual(fa, EmptyAttr) THEN flatAttrs(h, Tail(fas), st)
         ELSE IF IsPrefixKey(h, fa.Key)
              THEN flatAttrs(h, Tail(fas),
                             [st EXCEPT !.prefix = ValueString(fa.Value)])
         ELSE flatAttrs(h, Tail(fas), [st EXCEPT !.b = st.b \o writeAttr(h, fa)])

RECURSIVE recordAttrs(_, _, _, _)
\* r.Attrs(func(a) bool {...; return true}) of Handle
recordAttrs(h, gp, as, st) ==
    IF Len(as) = 0 THEN st
    ELSE recordAttrs(h, gp, Tail(as), flatAttrs(h, flattenAttr(gp, Head(as)), st))

\* a Handle that goes through the record's attributes before the carried
renderAttrsRecordFirst(h, r) ==
    carriedAttrs(h, h.attrs,
                 recordAttrs(h, groupPrefix(h), r.Attrs,
                             [b |-> "", prefix |-> ""]))

\* the builder's text and the prefix after both loops
renderAttrs(h, r) ==
    recordAttrs(h, groupPrefix(h), r.Attrs,
                carriedAttrs(h, h.attrs, [b |-> "", prefix |-> ""]))

\* msg
renderMsg(r, prefix) ==
    IF prefix # "" THEN prefix \o ": " \o r.Message ELSE r.Message

\* the operands of the fmt.Fprintf call Handle makes, verb by verb with the
\* literal text between them
formatParts(h, r) ==
    LET st == renderAttrs(h, r)
        msg == renderMsg(r, st.prefix)
        timeStr == IF r.timeIsZero THEN "" ELSE r.timeStr
    IN  IF h.source /\ r.PC # 0
        THEN << kindLabel(h, r.Level), " | ", PadLeft(timeStr, 15), " | ",
                PadRight(r.sourceStr, 20), " | ", PadRight(msg, 40), " ",
                st.b, "\n" >>
        ELSE << kindLabel(h, r.Level), " | ", PadLeft(timeStr, 15), " | ",
                PadRight(msg, 40), " ", st.b, "\n" >>

\* the line Handle emits for r
formatLine(h, r) == Concat(formatParts(h, r))

\* a Fprintf that hands each operand to the writer as it is formatted
FprintfUnbuffered(w, parts) ==
    [j \in 1..Len(parts) |-> [w |-> w, data |-> parts[j]]]

\* fmt.Fprintf(w, format, args...): the Write calls it makes.  The text is
\* formatted into one buffer and handed to w in a single Write
Fprintf(w, parts) == << [w |-> w, data |-> Concat(parts)] >>

\* w := h.writer; if w == nil { w = os.Stdout }
writerOf(h) == IF h.writer = NilWriter THEN Stdout ELSE h.writer


\* what Handle returns after the Fprintf call: return nil; the (n, err)
\* results of fmt.Fprintf are discarded
handleResult(werr) == "nil"

---------------------------------------------------------------------------
(* Handle, in two steps: everything up to the Fprintf call, then the Write *)
(* calls that Fprintf makes on the sink and the return.                    *)

\* Handle(ctx, r) on handlers[i], up to the call of fmt.Fprintf
HandleStart(i, r) ==
    /\ i \in 1..Len(handlers)
    /\ LET h == handlers[i] IN
       IF lenAttrLevels(h, maps) > 0 /\ ~enabledForRecord(h, maps, r)
       THEN calls' = Append(calls,
                [h |-> i, r |-> r, pc |-> "done", emitted |-> FALSE,
                 pending |-> <<>>, nwrites |-> 0, werr |-> "nil",
                 ret |-> "nil"])
       ELSE calls' = Append(calls,
                [h |-> i, r |-> r, pc |-> "write", emitted |-> TRUE,
                 pending |-> Fprintf(writerOf(h), formatParts(h, r)),
                 nwrites |-> 0, werr |-> "nil", ret |-> "nil"])
    /\ UNCHANGED <<handlers, maps, derivs, sinks, queries, evals, until>>

\* one Write call on the sink, which succeeds or fails; after the last one
\* Fprintf returns and Handle returns
HandleWrite(c) ==
    /\ c \in 1..Len(calls)
    /\ calls[c].pc = "write"
    /\ LET ch == Head(calls[c].pending)
           last == Len(calls[c].pending) = 1
       IN  \E ok \in BOOLEAN :
              /\ sinks' = IF ok
                          THEN [sinks EXCEPT ![ch.w] =
                                   Append(@, [call |-> c, data |-> ch.data])]
                          ELSE sinks
              /\ LET werr == IF ok THEN calls[c].werr ELSE "errWrite" IN
                 calls' = [calls EXCEPT ![c] =
                     [@ EXCEPT !.pending = IF ok THEN Tail(@) ELSE <<>>,
                               !.nwrites = @ + 1,
                               !.werr = werr,
                               !.pc = IF last \/ ~ok THEN "done" ELSE "write",
                               !.ret = IF last \/ ~ok THEN handleResult(werr)
                                       ELSE @]]
    /\ UNCHANGED <<handlers, maps, derivs, queries, evals, until>>

\* levels passed to Enabled
EnabledLevels == {LevelDebug, LevelInfo, LevelWarn, LevelError}

\* h.Enabled(ctx, level) on handlers[i]
EnabledCall(i, level) ==
    /\ i \in 1..Len(handlers)
    /\ queries' = Append(queries, [h |-> i, level |-> level,
                                   result |-> Enabled(handlers[i], maps, level)])
    /\ UNCHANGED <<handlers, maps, derivs, calls, sinks, evals, until>>

---------------------------------------------------------------------------
(* Specifications *)

\* no function applied yet, wait.Until not called
NoEval == [fn |-> "none"]
NoUntil == [pc |-> "idle"]

Init ==
    /\ handlers = << ZeroHandler >>
    /\ maps = <<>>
    /\ derivs = <<>>
    /\ calls = <<>>
    /\ sinks = [w \in Writers \cup {Stdout} |-> <<>>]
    /\ queries = <<>>
    /\ evals = NoEval
    /\ until = NoUntil

NumOps == Len(derivs) + Len(calls) + Len(queries)

\* handlers are derived while goroutines call Handle on those that exist
Next ==
    \/ NumOps < MaxOps /\ Derive
    \/ /\ NumOps < MaxOps
       /\ \E i \in 1..Len(handlers), r \in Records : HandleStart(i, r)
    \/ \E c \in 1..Len(calls) : HandleWrite(c)

Spec == Init /\ [][Next]_vars

\* the producer's pre-check: Enabled on the handlers derived
NextEnabled ==
    \/ NumOps < MaxOps /\ Derive
    \/ /\ NumOps < MaxOps
       /\ \E i \in 1..Len(handlers), level \in EnabledLevels :
             EnabledCall(i, level)

SpecEnabled == Init /\ [][NextEnabled]_vars

\* handlers are derived, none is used yet
NextDerive == NumOps < MaxOps /\ Derive

SpecDerive == Init /\ [][NextDerive]_vars

\* records logged by a program that configures the rendering: without
\* attributes, with plain ones, with an empty one and nested groups
RenderRecords ==
    { Record(LevelDebug, <<>>), Record(LevelDebug, <<aX, aKV>>),
      Record(LevelInfo, <<aSvc, aX>>), Record(LevelInfo, <<EmptyAttr, aNested>>) }

\* a program that configures the rendering and logs: attributes, groups,
\* prefix, colour and source are set, no override is registered
NextRender ==
    \/ /\ NumOps < MaxOps
       /\ \E i \in 1..Len(handlers) :
             \/ \E as \in AttrLists : WithAttrs(i, as)
             \/ \E name \in GroupNames \ {""} : WithGroup(i, name)
             \/ \E name \in PrefixNames : WithPrefix(i, name)
             \/ WithoutColor(i)
             \/ WithSource(i)
    \/ /\ NumOps < MaxOps
       /\ \E i \in 1..Len(handlers), r \in RenderRecords : HandleStart(i, r)
    \/ \E c \in 1..Len(calls) : HandleWrite(c)

SpecRender == Init /\ [][NextRender]_vars

\* attributes passed to WithAttrLevel when overrides are registered one
\* after another: one key with two values, and a second key
OverridePool == {aKV, aKW, aSvc}

\* overrides are registered on the handlers derived, other With* calls in
\* between
NextOverrides ==
    /\ NumOps < MaxOps
    /\ \E i \in 1..Len(handlers) :
          \/ \E a \in OverridePool, level \in OverrideLevels :
                WithAttrLevel(i, a, level)
          \/ WithoutColor(i)

SpecOverrides == Init /\ [][NextOverrides]_vars

\* records logged by a program that registers overrides
OverrideRecords ==
    { Record(LevelDebug, as) : as \in { <<>>, <<aKV>>, <<aSvc, aX>> } }
        \cup { Record(LevelInfo, <<aKV>>) }

\* a program that registers overrides for two keys, sets the minimum level,
\* adds carried attributes, and logs
NextFiltered ==
    \/ /\ NumOps < MaxOps
       /\ \E i \in 1..Len(handlers) :
             \/ \E a \in {aKV, aSvc}, level \in OverrideLevels :
                   WithAttrLevel(i, a, level)
             \/ \E level \in DeriveLevels : WithLevel(i, level)
             \/ \E as \in { <<aSvc>>, <<aKV>> } : WithAttrs(i, as)
    \/ /\ NumOps < MaxOps
       /\ \E i \in 1..Len(handlers), r \in OverrideRecords : HandleStart(i, r)
    \/ \E c \in 1..Len(calls) : HandleWrite(c)

SpecFiltered == Init /\ [][NextFiltered]_vars

\* attributes and group names of a logger configured step by step
aA == Attr("a", IntValue(1))
aB == Attr("b", IntValue(1))
aC == Attr("c", IntValue(1))
ChainGroups == {"G", "H"}

\* a logger is configured step by step: each WithAttrs or WithGroup is
\* called on the handler the step before returned, and that handler logs
NextChain ==
    \/ /\ NumOps < MaxChain
       /\ \/ \E as \in { <<aA>>, <<aB>> } : WithAttrs(Len(handlers), as)
          \/ \E name \in ChainGroups : WithGroup(Len(handlers), name)
    \/ /\ NumOps < MaxChain
       /\ HandleStart(Len(handlers), Record(LevelInfo, <<aC>>))
    \/ \E c \in 1..Len(calls) : HandleWrite(c)

SpecChain == Init /\ [][NextChain]_vars

\* attributes of a program that registers overrides and logs under a group:
\* k held by a LogValuer, k inside an inline group, k inside the group G,
\* and the key G.k
aKLazy == Attr("k", LogValuerValue(StringValue("v")))
aKInline == Attr("", GroupValue(<<aKV>>))
aGroupK == Attr("G", GroupValue(<<aKV>>))
aGK == Attr("G.k", StringValue("v"))

\* records of that program, all below the minimum level
MatchRecords ==
    { Record(LevelDebug, as) :
          as \in { <<aKV>>, <<aKLazy>>, <<aKInline>>, <<aX, aKV>> } }

\* a program that sets a group, carries k inside the group G, registers
\* overrides for the keys k and G.k, and logs
NextMatch ==
    \/ /\ NumOps < MaxOps
       /\ \E i \in 1..Len(handlers) :
             \/ WithGroup(i, "G")
             \/ WithAttrs(i, <<aGroupK>>)
             \/ \E a \in {aKV, aGK} : WithAttrLevel(i, a, LevelDebug)
    \/ /\ NumOps < MaxOps
       /\ \E i \in 1..Len(handlers), r \in MatchRecords : HandleStart(i, r)
    \/ \E c \in 1..Len(calls) : HandleWrite(c)

SpecMatch == Init /\ [][NextMatch]_vars

\* attributes of the prefix key: two values, and the empty string
aSvcV == Attr("svc", StringValue("v"))
aSvcW == Attr("svc", StringValue("w"))
aSvcNone == Attr("svc", StringValue(""))

\* records of a program that uses the message prefix: the prefix key once,
\* twice, with an empty value, inside an inline group, and not at all
PrefixRecords ==
    { Record(LevelInfo, as) :
          as \in { <<aSvcV>>, <<aSvcV, aX, aSvcW>>, <<aSvcNone>>,
                   <<Attr("", GroupValue(<<aSvcW>>))>>, <<aX>> } }

\* a program that sets the prefix key, carries attributes of that key, sets
\* a group, and logs
NextPrefix ==
    \/ /\ NumOps < MaxOps
       /\ \E i \in 1..Len(handlers) :
             \/ \E name \in PrefixNames : WithPrefix(i, name)
             \/ \E as \in { <<aSvc>>, <<aSvcNone>> } : WithAttrs(i, as)
             \/ WithGroup(i, "G")
    \/ /\ NumOps < MaxOps
       /\ \E i \in 1..Len(handlers), r \in PrefixRecords : HandleStart(i, r)
    \/ \E c \in 1..Len(calls) : HandleWrite(c)

SpecPrefix == Init /\ [][NextPrefix]_vars

---------------------------------------------------------------------------
(* Single functions of the rendering, applied to arguments of their own:   *)
(* evals holds the function, its arguments and what it returned.           *)

\* longest list of children of a group passed to flattenAttr
MaxGroupLen == 2

\* the sequences over S of length at most n
SeqsUpTo(S, n) == UNION { [1..k -> S] : k \in 0..n }

aId == Attr("id", IntValue(42))
aLazy == Attr("lv", LogValuerValue(StringValue("v")))
aLazyGroup == Attr("lg", LogValuerValue(GroupValue(<<aKV>>)))

\* group prefixes passed to flattenAttr: groupPrefix of no, one, two groups
FlattenPrefixes == {"", "G.", "G.H."}

\* attributes that are no group as they are passed
FlattenLeaves ==
    {EmptyAttr, aId, aKV, Attr("", StringValue("v")), aLazy, aLazyGroup}

\* groups of leaves, with and without a key of their own
FlattenGroups ==
    { Attr(k, GroupValue(as)) :
        k \in {"", "req"}, as \in SeqsUpTo(FlattenLeaves, MaxGroupLen) }

\* groups that hold a group
FlattenNested ==
    { Attr(k, GroupValue(<<a, g>>)) :
        k \in {"", "o"}, a \in {EmptyAttr, aKV}, g \in FlattenGroups }

FlattenAttrs == FlattenLeaves \cup FlattenGroups \cup FlattenNested

\* flattenAttr(prefix, a)
FlattenCall(prefix, a) ==
    /\ evals = NoEval
    /\ evals' = [fn |-> "flattenAttr", prefix |-> prefix, a |-> a,
                 out |-> flattenAttr(prefix, a)]
    /\ UNCHANGED <<handlers, maps, derivs, calls, sinks, queries, until>>

\* the record levels whose label is rendered: the four named ones, those
\* between them and some beyond
MaxLabelBelow == 12
MaxLabelLevel == 12
LabelLevels == (0 - MaxLabelBelow)..MaxLabelLevel

\* the label Handle formats for a record of this level, by a handler with
\* colour on or off
LabelCall(nocolor, level) ==
    /\ evals = NoEval
    /\ evals' = [fn |-> "label", nocolor |-> nocolor, level |-> level,
                 out |-> kindLabel([ZeroHandler EXCEPT !.nocolor = nocolor],
                                   level)]
    /\ UNCHANGED <<handlers, maps, derivs, calls, sinks, queries, until>>

\* the durations rendered, in milliseconds: hours, minutes, seconds and
\* milliseconds of each kind, zero included, and their negatives
DurHours == {0, 1, 10}
DurMinutes == {0, 1, 10, 30}
DurSeconds == {0, 5, 30}
DurMillis == {0, 5, 500}
Durations ==
    { sign * (h * 3600000 + m * 60000 + sec * 1000 + f) :
        sign \in {1, -1}, h \in DurHours, m \in DurMinutes,
        sec \in DurSeconds, f \in DurMillis }

\* writeAttr of an attribute d with a duration as its value
DurationCall(nocolor, d) ==
    /\ evals = NoEval
    /\ evals' = [fn |-> "writeDuration", nocolor |-> nocolor, d |-> d,
                 out |-> writeAttr([ZeroHandler EXCEPT !.nocolor = nocolor],
                                   Attr("d", DurationValue(d)))]
    /\ UNCHANGED <<handlers, maps, derivs, calls, sinks, queries, until>>

\* the floats rendered: zero and, of either sign, the digits 1 and 5 at
\* each decimal exponent of the range
MaxNegExp10 == 8
MaxExp10 == 22
Floats ==
    { FloatValue(neg, 0, 0) : neg \in BOOLEAN }
        \cup { FloatValue(neg, digit, exp) :
                 neg \in BOOLEAN, digit \in {1, 5}, exp \in (0 - MaxNegExp10)..MaxExp10 }

\* writeAttr of an attribute f with a float as its value
FloatCall(nocolor, v) ==
    /\ evals = NoEval
    /\ evals' = [fn |-> "writeFloat", nocolor |-> nocolor, v |-> v,
                 out |-> writeAttr([ZeroHandler EXCEPT !.nocolor = nocolor],
                                   Attr("f", v))]
    /\ UNCHANGED <<handlers, maps, derivs, calls, sinks, queries, until>>

NextPure ==
    \/ \E nocolor \in BOOLEAN, v \in Floats : FloatCall(nocolor, v)
    \/ \E nocolor \in BOOLEAN, d \in Durations : DurationCall(nocolor, d)
    \/ \E prefix \in FlattenPrefixes, a \in FlattenAttrs : FlattenCall(prefix, a)
    \/ \E nocolor \in BOOLEAN, level \in LabelLevels : LabelCall(nocolor, level)

SpecPure == Init /\ [][NextPure]_vars

---------------------------------------------------------------------------
(* Package wait: Until, run by one goroutine, with the context it is given *)
(* and the timer of WithJitter.  until.pc is the goroutine's position.      *)

\* the count of the calls of condition stops growing here
MaxCondCalls == 3

\* delay and interval passed to Until, in units of time
WaitDurations == {-1, 0, 4}
\* j passed to Until, in hundredths
Jitters == {0, 50, 100}
\* the condition passed: one that returns (false, nil) at every call, or
\* one that may return anything
Conditions == {"never", "any"}

\* JitterDuration(d, j): the durations it may return.  d itself when j is
\* outside [0,1); otherwise d plus float64(d)*prand.Float64()*j truncated,
\* prand.Float64() being in [0,1)
JitterDuration(d, j) ==
    IF j < 0 \/ j >= 100 THEN {d}
    ELSE { d + x : x \in { y \in 0..d : y = 0 \/ y * 100 < d * j } }

\* what a call of condition may return: (done, err)
CondOutcomes(cond) ==
    IF cond = "never" THEN { <<FALSE, "nil">> }
    ELSE { <<FALSE, "nil">>, <<TRUE, "nil">>, <<FALSE, "errCond">>,
           <<TRUE, "errCond">> }

\* an Until that looks at done before it looks at err
afterConditionDoneFirst(done, err) ==
    IF done THEN [pc |-> "returned", result |-> "nil"]
    ELSE IF err # "nil" THEN [pc |-> "returned", result |-> err]
    ELSE [pc |-> "jitter", result |-> "none"]

\* Until after done, err := condition(ctx): return err when it is not nil,
\* return nil when done, otherwise go on to WithJitter(ctx, interval, j)
afterCondition(done, err) ==
    IF err # "nil" THEN [pc |-> "returned", result |-> err]
    ELSE IF done THEN [pc |-> "returned", result |-> "nil"]
    ELSE [pc |-> "jitter", result |-> "none"]

\* Until(ctx, condition, delay, interval, j) is called; ctx may be
\* cancelled already
UntilCall(delay, interval, j, cond, cancelled) ==
    /\ until = NoUntil
    /\ until' = [pc |-> "start", phase |-> "delay", delay |-> delay,
                 interval |-> interval, j |-> j, cond |-> cond,
                 cancelled |-> cancelled,
                 cancelledIn |-> IF cancelled THEN "before" ELSE "none",
                 timer |-> "none", timerDur |-> 0, chosen |-> "none",
                 ncalls |-> 0, lastDone |-> FALSE, lastErr |-> "nil",
                 delayDone |-> FALSE, result |-> "none"]
    /\ UNCHANGED <<handlers, maps, derivs, calls, sinks, queries, evals>>

\* if delay > 0 { WithJitter(ctx, delay, j) ... }, else on to the loop
UntilStart ==
    /\ until.pc = "start"
    /\ until' = IF until.delay > 0
                THEN [until EXCEPT !.pc = "jitter"]
                ELSE [until EXCEPT !.pc = "cond", !.phase = "loop"]
    /\ UNCHANGED <<handlers, maps, derivs, calls, sinks, queries, evals>>

\* WithJitter up to the select: it returns nil at once when interval <= 0,
\* and otherwise starts a timer of the jittered interval
JitterEnter ==
    /\ until.pc = "jitter"
    /\ LET d == IF until.phase = "delay" THEN until.delay ELSE until.interval
       IN  IF d <= 0
           THEN until' = [until EXCEPT !.pc = "cond", !.phase = "loop"]
           ELSE \E dur \in JitterDuration(d, until.j) :
                   until' = [until EXCEPT !.pc = "select", !.timer = "running",
                                          !.timerDur = dur]
    /\ UNCHANGED <<handlers, maps, derivs, calls, sinks, queries, evals>>

\* the select finds t.C ready and takes that case
SelectTimer ==
    /\ until.pc = "select"
    /\ until.timer = "fired"
    /\ until' = [until EXCEPT !.pc = "woken", !.chosen = "timer"]
    /\ UNCHANGED <<handlers, maps, derivs, calls, sinks, queries, evals>>

\* the select finds ctx.Done() ready and takes that case
SelectDone ==
    /\ until.pc = "select"
    /\ until.cancelled
    /\ until' = [until EXCEPT !.pc = "woken", !.chosen = "done"]
    /\ UNCHANGED <<handlers, maps, derivs, calls, sinks, queries, evals>>

\* the select finds no case ready: the goroutine blocks
SelectBlock ==
    /\ until.pc = "select"
    /\ until.timer # "fired"
    /\ ~until.cancelled
    /\ until' = [until EXCEPT !.pc = "blocked"]
    /\ UNCHANGED <<handlers, maps, derivs, calls, sinks, queries, evals>>

\* WithJitter returns (the deferred t.Stop() runs) and Until goes on: it
\* returns the error of the ctx.Done() case, or goes to call condition
WithJitterReturn ==
    /\ until.pc = "woken"
    /\ until' = IF until.chosen = "done"
                THEN [until EXCEPT !.pc = "returned", !.result = "ctxErr",
                                   !.timer = "stopped"]
                ELSE [until EXCEPT !.pc = "cond", !.phase = "loop",
                                   !.timer = "stopped",
                                   !.delayDone = @ \/ until.phase = "delay"]
    /\ UNCHANGED <<handlers, maps, derivs, calls, sinks, queries, evals>>

\* done, err := condition(ctx) and the two tests that follow
CondCall ==
    /\ until.pc = "cond"
    /\ \E o \in CondOutcomes(until.cond) :
          LET next == afterCondition(o[1], o[2]) IN
          until' = [until EXCEPT
                       !.ncalls = IF @ < MaxCondCalls THEN @ + 1 ELSE @,
                       !.lastDone = o[1], !.lastErr = o[2],
                       !.pc = next.pc, !.result = next.result]
    /\ UNCHANGED <<handlers, maps, derivs, calls, sinks, queries, evals>>

\* the context is cancelled; a goroutine blocked in the select is woken
\* with the ctx.Done() case
Cancel ==
    /\ until.pc # "idle"
    /\ ~until.cancelled
    /\ until' = [until EXCEPT
                     !.cancelled = TRUE,
                     !.cancelledIn = IF until.pc = "blocked"
                                     THEN until.phase ELSE "other",
                     !.pc = IF until.pc = "blocked" THEN "woken" ELSE @,
                     !.chosen = IF until.pc = "blocked" THEN "done" ELSE @]
    /\ UNCHANGED <<handlers, maps, derivs, calls, sinks, queries, evals>>

\* the timer fires; a goroutine blocked in the select is woken with the
\* t.C case
TimerFire ==
    /\ until.pc # "idle"
    /\ until.timer = "running"
    /\ until' = [until EXCEPT
                     !.timer = "fired",
                     !.pc = IF until.pc = "blocked" THEN "woken" ELSE @,
                     !.chosen = IF until.pc = "blocked" THEN "timer" ELSE @]
    /\ UNCHANGED <<handlers, maps, derivs, calls, sinks, queries, evals>>

\* the steps of the goroutine that runs Until
UntilStep ==
    \/ UntilStart
    \/ JitterEnter
    \/ SelectTimer
    \/ SelectDone
    \/ SelectBlock
    \/ WithJitterReturn
    \/ CondCall

NextWait ==
    \/ \E delay \in WaitDurations, interval \in WaitDurations, j \in Jitters,
          cond \in Conditions, cancelled \in BOOLEAN :
          UntilCall(delay, interval, j, cond, cancelled)
    \/ UntilStep
    \/ Cancel
    \/ TimerFire

SpecWait == Init /\ [][NextWait]_vars

\* the goroutine keeps running, a running timer fires, and a select that
\* finds ctx.Done() ready again and again takes that case at some time
SpecWaitFair ==
    /\ Init /\ [][NextWait]_vars
    /\ WF_vars(UntilStep)
    /\ WF_vars(TimerFire)
    /\ SF_vars(SelectDone)

---------------------------------------------------------------------------
(* The build for Go before 1.21 (hlog/handler_go120.go): the same Handler  *)
(* over golang.org/x/exp/slog, with a single group name, no source column  *)
(* and no flattening.  Its handlers live in the same heap.                 *)

\* new(Handler) of that build
ZeroHandler_go120 ==
    [minLevel |-> LevelInfo, nocolor |-> FALSE, group |-> "", attrs |-> <<>>,
     writer |-> NilWriter, prefixName |-> <<>>, attrLevels |-> 0]

\* Handler.clone of that build: the struct literal names minLevel, nocolor,
\* group, prefixName and a new map; attrs and the entry lists are copied.
\* The literal does not name writer, which is nil in the new struct
clone_go120(h, mp) ==
    [h |-> [minLevel |-> h.minLevel, nocolor |-> h.nocolor, group |-> h.group,
            attrs |-> h.attrs, writer |-> NilWriter,
            prefixName |-> h.prefixName, attrLevels |-> Len(mp) + 1],
     maps |-> Append(mp, [k \in DOMAIN MapOf(mp, h.attrLevels) |->
                              MapOf(mp, h.attrLevels)[k]])]

WithLevel_go120(i, level) ==
    /\ i \in 1..Len(handlers)
    /\ LET c == clone_go120(handlers[i], maps)
       IN  Return("WithLevel", i, level, [c EXCEPT !.h.minLevel = level])

WithoutColor_go120(i) ==
    /\ i \in 1..Len(handlers)
    /\ LET c == clone_go120(handlers[i], maps)
       IN  Return("WithoutColor", i, TRUE, [c EXCEPT !.h.nocolor = TRUE])

WithPrefix_go120(i, name) ==
    /\ i \in 1..Len(handlers)
    /\ LET c == clone_go120(handlers[i], maps)
       IN  Return("WithPrefix", i, name, [c EXCEPT !.h.prefixName = <<name>>])

WithWriter_go120(i, w) ==
    /\ i \in 1..Len(handlers)
    /\ LET c == clone_go120(handlers[i], maps)
       IN  Return("WithWriter", i, w, [c EXCEPT !.h.writer = w])

WithAttrLevel_go120(i, a, level) ==
    /\ i \in 1..Len(handlers)
    /\ LET c == clone_go120(handlers[i], maps)
       IN  Return("WithAttrLevel", i, [attr |-> a, level |-> level],
                  setAttrLevel(c, a, level))

\* ih2.attrs = append(ih2.attrs, attrs...): the attributes as they are given
WithAttrs_go120(i, as) ==
    /\ i \in 1..Len(handlers)
    /\ LET c == clone_go120(handlers[i], maps)
       IN  Return("WithAttrs", i, as, [c EXCEPT !.h.attrs = c.h.attrs \o as])

\* ih2.group = name, for the empty name too
WithGroup_go120(i, name) ==
    /\ i \in 1..Len(handlers)
    /\ LET c == clone_go120(handlers[i], maps)
       IN  Return("WithGroup", i, name, [c EXCEPT !.h.group = name])

\* Handler.writeAttr of that build: the switch is on a.Value.Kind() as given
writeAttr_go120(h, a) ==
    " " \o (IF ~h.nocolor THEN colorBlue ELSE "") \o a.Key
        \o (IF ~h.nocolor THEN colorReset ELSE "") \o "="
        \o (CASE a.Value.kind = "Float64" ->
                    IF floatIsPlain(a.Value) THEN fmtF(a.Value)
                    ELSE fmtG(a.Value)
               [] a.Value.kind = "Duration" ->
                    Concat(trimDuration(durationString(a.Value.ms)))
               [] OTHER -> quote(ValueString(a.Value)))

RECURSIVE carriedAttrs_go120(_, _, _)
\* the loop of Handle over ih.attrs: the prefix is taken and the attribute
\* written all the same
carriedAttrs_go120(h, as, st) ==
    IF Len(as) = 0 THEN st
    ELSE LET a == Head(as) IN
         carriedAttrs_go120(h, Tail(as),
             [b |-> st.b \o writeAttr_go120(h, a),
              prefix |-> IF IsPrefixKey(h, a.Key)
                         THEN ValueString(a.Value) ELSE st.prefix])

RECURSIVE recordAttrs_go120(_, _, _)
\* r.Attrs(func(a) bool {...; return true}) of Handle
recordAttrs_go120(h, as, st) ==
    IF Len(as) = 0 THEN st
    ELSE LET a == Head(as) IN
         IF IsPrefixKey(h, a.Key)
         THEN recordAttrs_go120(h, Tail(as),
                                [st EXCEPT !.prefix = ValueString(a.Value)])
         ELSE recordAttrs_go120(h, Tail(as),
                                [st EXCEPT !.b = st.b \o writeAttr_go120(h, a)])

\* the operands of the fmt.Fprintf call of that build's Handle
formatParts_go120(h, r) ==
    LET st == recordAttrs_go120(h, r.Attrs,
                  carriedAttrs_go120(h, h.attrs, [b |-> "", prefix |-> ""]))
        msg == renderMsg(r, st.prefix)
        timeStr == IF r.timeIsZero THEN "00:00:00.000000" ELSE r.timeStr
    IN  << kindLabel(h, r.Level), " | ", PadLeft(timeStr, 15), " | ",
           PadRight(msg, 40), " ", st.b, "\n" >>

\* Handle(ctx, r) of that build on handlers[i], up to the call of
\* fmt.Fprintf; the Write on the sink and the return are HandleWrite
HandleStart_go120(i, r) ==
    /\ i \in 1..Len(handlers)
    /\ LET h == handlers[i] IN
       IF lenAttrLevels(h, maps) > 0 /\ ~enabledForRecord(h, maps, r)
       THEN calls' = Append(calls,
                [h |-> i, r |-> r, pc |-> "done", emitted |-> FALSE,
                 pending |-> <<>>, nwrites |-> 0, werr |-> "nil",
                 ret |-> "nil"])
       ELSE calls' = Append(calls,
                [h |-> i, r |-> r, pc |-> "write", emitted |-> TRUE,
                 pending |-> Fprintf(writerOf(h), formatParts_go120(h, r)),
                 nwrites |-> 0, werr |-> "nil", ret |-> "nil"])
    /\ UNCHANGED <<handlers, maps, derivs, sinks, queries, evals, until>>

\* the state after new(Handler) in that build
Init_go120 ==
    /\ handlers = << ZeroHandler_go120 >>
    /\ maps = <<>>
    /\ derivs = <<>>
    /\ calls = <<>>
    /\ sinks = [w \in Writers \cup {Stdout} |-> <<>>]
    /\ queries = <<>>
    /\ evals = NoEval
    /\ until = NoUntil

\* handlers of that build are derived and used
Next_go120 ==
    \/ /\ NumOps < MaxOps
       /\ \E i \in 1..Len(handlers) :
             \/ \E level \in DeriveLevels : WithLevel_go120(i, level)
             \/ WithoutColor_go120(i)
             \/ \E name \in PrefixNames : WithPrefix_go120(i, name)
             \/ \E w \in Writers : WithWriter_go120(i, w)
             \/ \E a \in OverrideAttrs, level \in OverrideLevels :
                   WithAttrLevel_go120(i, a, level)
             \/ \E as \in { <<aSvc>>, <<aKV>> } : WithAttrs_go120(i, as)
             \/ \E name \in GroupNames : WithGroup_go120(i, name)
    \/ /\ NumOps < MaxOps
       /\ \E i \in 1..Len(handlers), r \in OverrideRecords :
             HandleStart_go120(i, r)
    \/ \E c \in 1..Len(calls) : HandleWrite(c)

Spec_go120 == Init_go120 /\ [][Next_go120]_vars

---------------------------------------------------------------------------
(* Vocabulary of the properties *)

Range(f) == { f[x] : x \in DOMAIN f }

\* the override table of handlers[i]
Table(i) == MapOf(maps, handlers[i].attrLevels)

\* handlers[i] as a value: every field, the override table by its contents
View(i) == [handlers[i] EXCEPT !.attrLevels = Table(i)]

\* the With* call that made handlers[i], for i > 1
Origin(i) == CHOOSE d \in Range(derivs) : d.result = i /\ d.recv # i

RECURSIVE HasOverride(_)
\* some WithAttrLevel call lies on the chain of calls that made handlers[i]
HasOverride(i) ==
    /\ i > 1
    /\ \/ Origin(i).op = "WithAttrLevel"
       \/ HasOverride(Origin(i).recv)

\* an override (a.Value, L) is registered under a.Key with level >= L
OverrideFor(i, a, level) ==
    /\ a.Key \in DOMAIN Table(i)
    /\ \E e \in Range(Table(i)[a.Key]) : e.value = a.Value /\ level >= e.level

\* some carried attribute of handlers[i], or some attribute of r at any
\* position, has such an override
SomeOverrideMatches(i, r) ==
    \E a \in Range(handlers[i].attrs) \cup Range(r.Attrs) :
        OverrideFor(i, a, r.Level)

Done(c) == calls[c].pc = "done"

\* the Write calls that reached a sink on behalf of call c
ChunksOf(c) ==
    UNION { { <<w, j>> : j \in { x \in 1..Len(sinks[w]) : sinks[w][x].call = c } }
            : w \in DOMAIN sinks }

\* call c put nothing in any sink and returned no error
Silent(c) ==
    /\ ~calls[c].emitted
    /\ calls[c].nwrites = 0
    /\ ChunksOf(c) = {}
    /\ calls[c].ret = "nil"

BelowMin(c) == calls[c].r.Level < handlers[calls[c].h].minLevel

---------------------------------------------------------------------------
(* C1 *)

\* C1 as stated: for every configuration, with or without overrides, a
\* record below the minimum level that no override matches makes Handle
\* write nothing and return nil.
C1_AnyConfiguration ==
    \A c \in 1..Len(calls) :
        (Done(c) /\ BelowMin(c) /\ ~SomeOverrideMatches(calls[c].h, calls[c].r))
            => Silent(c)

\* C1, amended: for every configuration with at least one override
\* registered, a record below the minimum level that no override matches
\* makes Handle write nothing and return nil.
C1_SuppressedBelowMin ==
    \A c \in 1..Len(calls) :
        (/\ Done(c)
         /\ BelowMin(c)
         /\ HasOverride(calls[c].h)
         /\ ~SomeOverrideMatches(calls[c].h, calls[c].r))
            => Silent(c)

\* a finished call on a handler with an override, the record below the
\* minimum level and carrying the override's key with another value
C1_Witness ==
    \E c \in 1..Len(calls) :
        /\ Done(c)
        /\ BelowMin(c)
        /\ HasOverride(calls[c].h)
        /\ ~SomeOverrideMatches(calls[c].h, calls[c].r)
        /\ calls[c].r.Attrs = <<aKW>>
        /\ Silent(c)

---------------------------------------------------------------------------
(* C2 *)

\* C2: a record below the minimum level of which some attribute, at any
\* position, or some carried attribute has a registered override with
\* record level >= the override's level is emitted, as exactly one line.
C2_MatchAnywhereEmits ==
    \A c \in 1..Len(calls) :
        (Done(c) /\ BelowMin(c) /\ SomeOverrideMatches(calls[c].h, calls[c].r))
            => (calls[c].emitted /\ calls[c].nwrites = 1)

---------------------------------------------------------------------------
(* C3 *)

\* C3: a record carrying an attribute for which WithAttrLevel registered
\* (value, level) is emitted only if the record's level is >= that level.
C3_EmittedOnlyAtOverrideLevel ==
    \A c \in 1..Len(calls) :
        calls[c].emitted =>
            \A a \in Range(calls[c].r.Attrs) :
                a.Key \in DOMAIN Table(calls[c].h) =>
                    \A e \in Range(Table(calls[c].h)[a.Key]) :
                        e.value = a.Value => calls[c].r.Level >= e.level

---------------------------------------------------------------------------
(* C4 *)

\* C4: Enabled(level) is level >= minimum level when no override is
\* registered, and true for every level once an override is registered.
C4_Enabled ==
    \A q \in 1..Len(queries) :
        queries[q].result =
            IF HasOverride(queries[q].h) THEN TRUE
            ELSE queries[q].level >= handlers[queries[q].h].minLevel

\* both cases asked below the minimum level: without an override the answer
\* is false, with one it is true
C4_Witness ==
    \E q1, q2 \in 1..Len(queries) :
        /\ ~HasOverride(queries[q1].h)
        /\ queries[q1].level < handlers[queries[q1].h].minLevel
        /\ ~queries[q1].result
        /\ HasOverride(queries[q2].h)
        /\ queries[q2].level < handlers[queries[q2].h].minLevel
        /\ queries[q2].result

---------------------------------------------------------------------------
(* C5 *)

\* C5: no With* call changes any field of any configuration that exists,
\* the contents of its override table and of each entry list included: a
\* parent never sees what a child adds, nor one child what another adds.
C5_SnapshotsNeverChange ==
    [][ /\ Len(handlers') >= Len(handlers)
        /\ \A i \in 1..Len(handlers) : View(i)' = View(i) ]_vars

\* two children of one parent that holds an override table, the second of
\* them made by WithAttrLevel
C5_Witness ==
    \E n1, n2 \in 1..Len(derivs) :
        /\ n1 < n2
        /\ derivs[n1].recv = derivs[n2].recv
        /\ derivs[n1].result # derivs[n2].result
        /\ derivs[n2].op = "WithAttrLevel"
        /\ HasOverride(derivs[n1].recv)
        /\ Table(derivs[n2].result) # Table(derivs[n2].recv)

---------------------------------------------------------------------------
(* C6 *)

\* C6: the result of WithLevel, WithoutColor, WithPrefix, WithWriter,
\* WithSource or WithAttrLevel equals the receiver in every field but the one
\* the call sets; for WithAttrLevel that one is the entry list of the key.
C6_OneFieldChanged ==
    \A n \in 1..Len(derivs) :
        LET d == derivs[n]
            p == View(d.recv)
            q == View(d.result)
        IN  /\ d.op = "WithLevel" => q = [p EXCEPT !.minLevel = d.arg]
            /\ d.op = "WithoutColor" => q = [p EXCEPT !.nocolor = TRUE]
            /\ d.op = "WithPrefix" => q = [p EXCEPT !.prefixName = <<d.arg>>]
            /\ d.op = "WithWriter" => q = [p EXCEPT !.writer = d.arg]
            /\ d.op = "WithSource" => q = [p EXCEPT !.source = TRUE]
            /\ d.op = "WithAttrLevel" =>
                  /\ [q EXCEPT !.attrLevels = <<>>] = [p EXCEPT !.attrLevels = <<>>]
                  /\ DOMAIN q.attrLevels = DOMAIN p.attrLevels \cup {d.arg.attr.Key}
                  /\ \A k \in DOMAIN p.attrLevels \ {d.arg.attr.Key} :
                        q.attrLevels[k] = p.attrLevels[k]
                  /\ q.attrLevels[d.arg.attr.Key] # <<>>

\* one of the six calls made on a receiver that differs from new(Handler)
\* in its writer
C6_Witness ==
    \E n \in 1..Len(derivs) :
        /\ derivs[n].op \in {"WithLevel", "WithoutColor", "WithPrefix",
                             "WithSource", "WithAttrLevel"}
        /\ handlers[derivs[n].recv].writer # NilWriter
        /\ handlers[derivs[n].result].writer = handlers[derivs[n].recv].writer

---------------------------------------------------------------------------
(* C7 *)

\* C7: Handle returns the sink's write error when the write fails, and nil
\* when the write succeeds or the record is suppressed.
C7_WriteErrorReturned ==
    \A c \in 1..Len(calls) : Done(c) => calls[c].ret = calls[c].werr

---------------------------------------------------------------------------
(* C8 *)

\* C8: an invocation that emits makes exactly one Write call, with the whole
\* formatted line; a suppressed one makes none; so whatever the interleaving
\* of the invocations, a sink holds whole lines only, one per invocation.
C8_OneWholeWrite ==
    /\ \A c \in 1..Len(calls) :
          /\ Done(c) => calls[c].nwrites = (IF calls[c].emitted THEN 1 ELSE 0)
          /\ ~Done(c) => calls[c].nwrites = 0
          /\ Cardinality(ChunksOf(c)) <= 1
          /\ ~calls[c].emitted => ChunksOf(c) = {}
    /\ \A w \in DOMAIN sinks : \A j \in 1..Len(sinks[w]) :
          sinks[w][j].data =
              formatLine(handlers[calls[sinks[w][j].call].h],
                         calls[sinks[w][j].call].r)

\* two invocations overlapped on one sink: the one that started second wrote
\* first
C8_Witness ==
    \E w \in DOMAIN sinks :
        /\ Len(sinks[w]) = 2
        /\ sinks[w][1].call = 2
        /\ sinks[w][2].call = 1

---------------------------------------------------------------------------
(* C9 *)

\* the attributes Handle goes through for r, in rendering order: the
\* carried ones, then the flattened leaves of the record's own
RenderedAttrs(i, r) ==
    LET NotEmpty(a) == a # EmptyAttr
    IN  SelectSeq(handlers[i].attrs, NotEmpty)
            \o flattenAll(groupPrefix(handlers[i]), r.Attrs)

\* the line with pfx as the message prefix and with every attribute of the
\* prefix key left out of the attribute text
LineWithPrefix(i, r, pfx) ==
    LET h == handlers[i]
        Other(a) == a.Key # h.prefixName[1]
        others == SelectSeq(RenderedAttrs(i, r), Other)
        text == Concat([j \in 1..Len(others) |-> writeAttr(h, others[j])])
        middle == IF h.source
                  THEN " | " \o PadRight(r.sourceStr, 20) \o " | "
                  ELSE " | "
    IN  kindLabel(h, r.Level) \o " | " \o PadLeft(r.timeStr, 15) \o middle
            \o PadRight(pfx \o ": " \o r.Message, 40) \o " " \o text \o "\n"

\* the text call c hands or handed to its sink
LinesOf(c) ==
    { calls[c].pending[j].data : j \in 1..Len(calls[c].pending) }
        \cup { sinks[x[1]][x[2]].data : x \in ChunksOf(c) }

\* C9: with a prefix key configured, an attribute of that key, carried or
\* the record's own, gives the message its prefix and is left out of the
\* attribute text.
C9_PrefixAttrExcluded ==
    \A c \in 1..Len(calls) :
        LET i == calls[c].h
            r == calls[c].r
            HasKey(a) == a.Key = handlers[i].prefixName[1]
        IN  (/\ calls[c].emitted
             /\ handlers[i].prefixName # <<>>
             /\ \E a \in Range(RenderedAttrs(i, r)) : HasKey(a))
                => \A line \in LinesOf(c) :
                      \E a \in Range(RenderedAttrs(i, r)) :
                          /\ HasKey(a)
                          /\ line = LineWithPrefix(i, r, ValueString(a.Value))

---------------------------------------------------------------------------
(* C10 *)

RECURSIVE LeavesAt(_, _)
\* the leaves of a with their dot-joined paths: path holds the names of the
\* groups around a
LeavesAt(path, a) ==
    IF a.Value.kind = "Group"
    THEN LET inner == IF a.Key = "" THEN path ELSE Append(path, a.Key)
             sub == [j \in 1..Len(a.Value.group) |->
                        LeavesAt(inner, a.Value.group[j])]
             F[j \in 0..Len(sub)] == IF j = 0 THEN <<>> ELSE F[j - 1] \o sub[j]
         IN  F[Len(sub)]
    ELSE IF a = EmptyAttr THEN <<>>
    ELSE << Attr(Join(Append(path, a.Key), "."), a.Value) >>

\* C10: the carried attributes of C.WithAttrs(As) are those of C followed,
\* in order, by the leaves of each attribute of As under C's groups; an
\* empty attribute adds nothing.
C10_WithAttrsAppendsLeaves ==
    \A n \in 1..Len(derivs) :
        derivs[n].op = "WithAttrs" =>
            LET as == derivs[n].arg
                C == handlers[derivs[n].recv]
                leaves == [j \in 1..Len(as) |-> LeavesAt(C.groups, as[j])]
                F[j \in 0..Len(as)] ==
                    IF j = 0 THEN C.attrs ELSE F[j - 1] \o leaves[j]
            IN  handlers[derivs[n].result].attrs = F[Len(as)]

\* WithAttrs on a configuration with a group and carried attributes, the
\* list holding an empty attribute and nested groups
C10_Witness ==
    \E n \in 1..Len(derivs) :
        /\ derivs[n].op = "WithAttrs"
        /\ derivs[n].arg = <<EmptyAttr, aNested>>
        /\ handlers[derivs[n].recv].groups = <<"G">>
        /\ handlers[derivs[n].recv].attrs # <<>>
        /\ Len(handlers[derivs[n].result].attrs)
              = Len(handlers[derivs[n].recv].attrs) + 2

---------------------------------------------------------------------------
(* C11 *)

RECURSIVE LeafList(_, _, _)
\* the leaves of a under prefix, in child order: a group gives those of its
\* children under prefix extended by its key and a dot (by nothing when it
\* has no key), an empty attribute gives none, any other attribute gives
\* itself with prefix before its key.  With resolved, a value is taken as
\* what it resolves to; without, as it was passed.
LeafList(prefix, a, resolved) ==
    LET v == IF resolved THEN Resolve(a.Value) ELSE a.Value IN
    IF v.kind = "Group"
    THEN LET inner == IF a.Key = "" THEN prefix ELSE prefix \o a.Key \o "."
             F[j \in 0..Len(v.group)] ==
                 IF j = 0 THEN <<>>
                 ELSE F[j - 1] \o LeafList(inner, v.group[j], resolved)
         IN  F[Len(v.group)]
    ELSE IF a.Key = "" /\ v = ZeroValue THEN <<>>
    ELSE << Attr(prefix \o a.Key, v) >>

\* C11 as stated: flattenAttr(prefix, a) returns no group; for a that is no
\* group, one attribute with key prefix+a.Key and the value unchanged; for a
\* group, the flattenings of its children in order under the extended
\* prefix; nothing for an empty group or an empty attribute.
C11_ValueUnchanged ==
    evals.fn = "flattenAttr" =>
        /\ evals.out = LeafList(evals.prefix, evals.a, FALSE)
        /\ \A j \in 1..Len(evals.out) : evals.out[j].Value.kind # "Group"

\* C11, amended: the same with every value first resolved: a LogValuer
\* counts as the value it resolves to, as a group when that is a group, and
\* a leaf is returned with the resolved value.
C11_FlattenResolved ==
    evals.fn = "flattenAttr" =>
        /\ evals.out = LeafList(evals.prefix, evals.a, TRUE)
        /\ \A j \in 1..Len(evals.out) :
              evals.out[j].Value.kind \notin {"Group", "LogValuer"}

\* the group "req" holding id=42 and a LogValuer, flattened under a prefix
C11_Witness ==
    /\ evals.fn = "flattenAttr"
    /\ evals.prefix = "G."
    /\ evals.a = Attr("req", GroupValue(<<aId, aLazy>>))
    /\ evals.out = << Attr("G.req.id", IntValue(42)),
                      Attr("G.req.lv", StringValue("v")) >>

---------------------------------------------------------------------------
(* C12 *)

\* s is a prefix of t
IsPrefix(s, t) == Len(s) <= Len(t) /\ s = SubSeq(t, 1, Len(s))

RECURSIVE IsAncestor(_, _)
\* handlers[j] was derived from handlers[i] by one or more With* calls
IsAncestor(i, j) ==
    /\ j > 1
    /\ \/ Origin(j).recv = i
       \/ IsAncestor(i, Origin(j).recv)

\* C12: WithGroup("") returns the receiver itself and makes no new
\* configuration; WithGroup(name) returns a new configuration whose group
\* stack is the receiver's with name appended; the group stack of an
\* ancestor is a prefix of that of each of its descendants.
C12_WithGroupAppends ==
    /\ \A n \in 1..Len(derivs) :
          derivs[n].op = "WithGroup" =>
              IF derivs[n].arg = ""
              THEN derivs[n].result = derivs[n].recv
              ELSE /\ derivs[n].result # derivs[n].recv
                   /\ handlers[derivs[n].result].groups
                         = Append(handlers[derivs[n].recv].groups, derivs[n].arg)
    /\ Len(handlers)
          = 1 + Cardinality({ n \in 1..Len(derivs) :
                                ~(derivs[n].op = "WithGroup" /\ derivs[n].arg = "") })
    /\ \A i, j \in 1..Len(handlers) :
          IsAncestor(i, j) => IsPrefix(handlers[i].groups, handlers[j].groups)

\* two named groups opened one inside the other, then WithGroup("") called
\* on the result
C12_Witness ==
    \E n \in 1..Len(derivs) :
        /\ derivs[n].op = "WithGroup"
        /\ derivs[n].arg = ""
        /\ derivs[n].result = derivs[n].recv
        /\ handlers[derivs[n].recv].groups = <<"G", "G">>
        /\ IsAncestor(1, derivs[n].recv)

---------------------------------------------------------------------------
(* C13 *)

\* C13: after C.WithAttrLevel(a, level) the entry list under a.Key is C's
\* list for that key (empty when C has none) with (a.Value, level) appended
\* at the end; the lists of the other keys are C's; so the earlier entries
\* stay, in order, and a repeated registration adds one more entry.
C13_OverrideAppended ==
    \A n \in 1..Len(derivs) :
        derivs[n].op = "WithAttrLevel" =>
            LET p == Table(derivs[n].recv)
                q == Table(derivs[n].result)
                k == derivs[n].arg.attr.Key
                old == IF k \in DOMAIN p THEN p[k] ELSE <<>>
            IN  /\ DOMAIN q = DOMAIN p \cup {k}
                /\ q[k] = Append(old, [value |-> derivs[n].arg.attr.Value,
                                       level |-> derivs[n].arg.level])
                /\ \A k2 \in DOMAIN p \ {k} : q[k2] = p[k2]

\* the same (value, level) registered twice under one key, with another
\* key registered in between
C13_Witness ==
    \E n \in 1..Len(derivs) :
        /\ derivs[n].op = "WithAttrLevel"
        /\ derivs[n].arg.attr = aKV
        /\ "k" \in DOMAIN Table(derivs[n].recv)
        /\ Table(derivs[n].recv)["k"] = << [value |-> StringValue("v"),
                                           level |-> derivs[n].arg.level] >>
        /\ "svc" \in DOMAIN Table(derivs[n].recv)
        /\ Len(Table(derivs[n].result)["k"]) = 2
        /\ Table(derivs[n].result)["k"][1] = Table(derivs[n].result)["k"][2]

---------------------------------------------------------------------------
(* C14 *)

\* the name of a named level, the two-digit zero-padded number of another
LevelName(level) ==
    CASE level = LevelError -> "error"
      [] level = LevelWarn -> "warn"
      [] level = LevelInfo -> "info"
      [] level = LevelDebug -> "debug"
      [] OTHER -> IF 0 <= level /\ level < 10 THEN "0" \o Itoa(level)
                  ELSE Itoa(level)

\* C14: for every level and both colour settings the label, its colour
\* directives aside, is 5 characters wide: the level's name, or for another
\* level its two-digit zero-padded number, padded with spaces on the right.
C14_LabelWidth5 ==
    evals.fn = "label" =>
        LET text == PadRight(LevelName(evals.level), 5) IN
        /\ Len(text) = 5
        /\ \/ evals.out = text
           \/ /\ ~evals.nocolor
              /\ \E c \in {colorRed, colorGreen, colorYellow, colorBlue} :
                    evals.out = c \o text \o colorReset

---------------------------------------------------------------------------
(* C15 *)

\* call c is made on the result of the WithAttrLevel call derivs[n], and
\* the key registered appears in no carried attribute of that handler and
\* in no attribute of the record, at the top or inside a group
InertFor(n, c) ==
    LET q == derivs[n].result
        k == derivs[n].arg.attr.Key
        r == calls[c].r
        leaves == flattenAll(groupPrefix(handlers[q]), r.Attrs)
    IN  /\ derivs[n].op = "WithAttrLevel"
        /\ calls[c].h = q
        /\ \A a \in Range(handlers[q].attrs) \cup Range(r.Attrs)
                   \cup Range(leaves) : a.Key # k

\* the override matched nothing, Handle returned no error, and the record
\* was emitted or suppressed as the receiver of the WithAttrLevel call, the
\* same configuration without the override, emits or suppresses it
SameAsWithout(n, c) ==
    LET q == derivs[n].result
        r == calls[c].r
    IN  /\ \A a \in Range(handlers[q].attrs) \cup Range(r.Attrs) :
              ~(/\ a.Key = derivs[n].arg.attr.Key
                /\ ValueEqual(derivs[n].arg.attr.Value, a.Value))
        /\ calls[c].ret = "nil"
        /\ calls[c].emitted = handleEmits(handlers[q], maps, r)
        /\ calls[c].emitted = handleEmits(handlers[derivs[n].recv], maps, r)

\* C15 as stated: an override for a key that no carried and no record
\* attribute has never matches, causes no error, and leaves the outcome of
\* Handle for every record what it is without that override.
C15_InertOverride ==
    \A n \in 1..Len(derivs), c \in 1..Len(calls) :
        InertFor(n, c) => SameAsWithout(n, c)

\* C15, amended: the same, for a configuration that has another override
\* registered and for records at or above the minimum level.
C15_InertAmongOverrides ==
    \A n \in 1..Len(derivs), c \in 1..Len(calls) :
        (/\ InertFor(n, c)
         /\ \/ HasOverride(derivs[n].recv)
            \/ calls[c].r.Level >= handlers[derivs[n].recv].minLevel)
            => SameAsWithout(n, c)

\* a record below the minimum level, with an attribute of its own, handled
\* by a configuration with two overrides, the second for a key the record
\* does not have: suppressed, as with the first override alone
C15_Witness ==
    \E n \in 1..Len(derivs), c \in 1..Len(calls) :
        /\ InertFor(n, c)
        /\ HasOverride(derivs[n].recv)
        /\ calls[c].r.Attrs = <<aKV>>
        /\ BelowMin(c)
        /\ Done(c)
        /\ ~calls[c].emitted

---------------------------------------------------------------------------
(* C16 *)

\* the text of a duration of d milliseconds from its components: hours,
\* minutes and seconds with their units, the zero seconds left out when
\* minutes or hours come before them, and the zero minutes too when the
\* seconds are left out and hours come before them
DurationText(d) ==
    LET u == IF d < 0 THEN 0 - d ELSE d
        sign == IF d < 0 THEN "-" ELSE ""
        H == u \div 3600000
        M == (u \div 60000) % 60
        S == (u \div 1000) % 60
        F == u % 1000
        frac == IF F = 0 THEN ""
                ELSE IF F % 100 = 0 THEN "." \o Itoa(F \div 100)
                ELSE IF F % 10 = 0
                     THEN "." \o (IF F < 100 THEN "0" ELSE "") \o Itoa(F \div 10)
                ELSE "." \o (IF F < 10 THEN "00" ELSE IF F < 100 THEN "0" ELSE "")
                         \o Itoa(F)
        sec == Itoa(S) \o frac \o "s"
        zeroSec == S = 0 /\ F = 0
    IN  IF u = 0 THEN "0s"
        ELSE IF u < 1000 THEN sign \o Itoa(F) \o "ms"
        ELSE IF H > 0
             THEN sign \o Itoa(H) \o "h"
                      \o (IF M = 0 /\ zeroSec THEN "" ELSE Itoa(M) \o "m")
                      \o (IF zeroSec THEN "" ELSE sec)
        ELSE IF M > 0
             THEN sign \o Itoa(M) \o "m" \o (IF zeroSec THEN "" ELSE sec)
        ELSE sign \o sec

\* C16: a duration is rendered as its unit-suffixed text with trailing
\* zero seconds and then trailing zero minutes removed: 5 seconds as 5s,
\* 5 minutes as 5m, 1 hour as 1h, 90 minutes as 1h30m; a text whose last
\* component is not zero is unchanged.
C16_DurationTrimmed ==
    evals.fn = "writeDuration" =>
        LET key == IF evals.nocolor THEN "d" ELSE colorBlue \o "d" \o colorReset
            text(d) == " " \o key \o "=" \o d
        IN  /\ evals.out = text(DurationText(evals.d))
            /\ evals.d = 5000 => evals.out = text("5s")
            /\ evals.d = 300000 => evals.out = text("5m")
            /\ evals.d = 3600000 => evals.out = text("1h")
            /\ evals.d = 5400000 => evals.out = text("1h30m")
            /\ evals.d = 3605000 => evals.out = text("1h0m5s")

\* ten hours: both trimmings apply, and the zero of the hours stays
C16_Witness ==
    /\ evals.fn = "writeDuration"
    /\ evals.nocolor
    /\ evals.d = 36000000
    /\ evals.out = " d=10h"

---------------------------------------------------------------------------
(* C17 *)

\* C17: a float is rendered in fixed-point notation when it is zero or its
\* magnitude lies in [1e-6, 1e21), in scientific notation otherwise; so v
\* and -v are rendered in the same notation.
C17_FloatNotationByMagnitude ==
    evals.fn = "writeFloat" =>
        LET v == evals.v
            key == IF evals.nocolor THEN "f" ELSE colorBlue \o "f" \o colorReset
            fixed == v.digit = 0 \/ (v.exp >= -6 /\ v.exp < 21)
        IN  evals.out = " " \o key \o "=" \o (IF fixed THEN fmtF(v) ELSE fmtE(v))

---------------------------------------------------------------------------
(* C18 *)

\* C18: whatever delay and interval are, interval <= 0 included, with a
\* condition that returns (false, nil) at every call, once the context is
\* cancelled Until stops calling condition and returns the cancellation
\* error.
C18_CancelStopsUntil ==
    (until.pc # "idle" /\ until.cond = "never" /\ until.cancelled)
        ~> (until.pc = "returned" /\ until.result = "ctxErr")

---------------------------------------------------------------------------
(* C19 *)

\* what holds of Until at every moment
UntilInv ==
    until.pc # "idle" =>
        /\ (until.pc = "returned" /\ until.result = "nil")
              => (until.ncalls > 0 /\ until.lastDone /\ until.lastErr = "nil")
        /\ until.lastErr # "nil"
              => (until.pc = "returned" /\ until.result = until.lastErr)
        /\ until.lastDone => until.pc = "returned"
        /\ (until.delay > 0 /\ until.ncalls > 0) => until.delayDone
        /\ until.cancelledIn = "delay"
              => /\ until.ncalls = 0
                 /\ until.pc = "returned" => until.result = "ctxErr"

---------------------------------------------------------------------------
(* C20 *)

\* the attributes of a line in the order stated: the carried ones as they
\* were added, empty ones left out, then the leaves of each attribute of
\* the record under the groups of the configuration, in record order
AttrsInOrder(i, r) ==
    LET NotEmpty(a) == a # EmptyAttr
        own == [j \in 1..Len(r.Attrs) |-> LeavesAt(handlers[i].groups, r.Attrs[j])]
        F[j \in 0..Len(own)] == IF j = 0 THEN <<>> ELSE F[j - 1] \o own[j]
    IN  SelectSeq(handlers[i].attrs, NotEmpty) \o F[Len(own)]

\* one space, the key (between colour directives when colour is on), '='
\* and the value, for each attribute of as but those at the positions skip
AttrText(i, as, skip) ==
    LET key(a) == IF handlers[i].nocolor THEN a.Key
                  ELSE colorBlue \o a.Key \o colorReset
        one(j) == IF j \in skip THEN ""
                  ELSE " " \o key(as[j]) \o "=" \o quote(ValueString(as[j].Value))
    IN  Concat([j \in 1..Len(as) |-> one(j)])

\* the line of r with this message column and this attribute text
LineWith(i, r, msg, text) ==
    LET h == handlers[i]
        middle == IF h.source
                  THEN " | " \o PadRight(r.sourceStr, 20) \o " | "
                  ELSE " | "
    IN  kindLabel(h, r.Level) \o " | " \o PadLeft(r.timeStr, 15) \o middle
            \o PadRight(msg, 40) \o " " \o text \o "\n"

\* C20: the attribute text of an emitted line is made of the carried
\* attributes, in the order the WithAttrs calls added them, followed by the
\* record's own attributes flattened under the group prefix, in record
\* order; each attribute rendered contributes one space, its key, '=' and
\* its value, an empty attribute nothing.  (Which attributes of the prefix
\* key are rendered, and which message prefix the line has, is left open
\* here.)
C20_AttrTextOrder ==
    \A c \in 1..Len(calls) :
        calls[c].emitted =>
            LET i == calls[c].h
                r == calls[c].r
                as == AttrsInOrder(i, r)
                pfxAt == { j \in 1..Len(as) :
                             /\ handlers[i].prefixName # <<>>
                             /\ as[j].Key = handlers[i].prefixName[1] }
                msgs == {r.Message}
                           \cup { ValueString(as[j].Value) \o ": " \o r.Message :
                                    j \in pfxAt }
            IN  \A line \in LinesOf(c) :
                    \E skip \in SUBSET pfxAt, msg \in msgs :
                        line = LineWith(i, r, msg, AttrText(i, as, skip))

\* a line of a configuration that carries attributes of two WithAttrs
\* calls, for a record with two attributes of its own
C20_Witness ==
    \E c \in 1..Len(calls) :
        /\ calls[c].emitted
        /\ Done(c)
        /\ ChunksOf(c) # {}
        /\ handlers[calls[c].h].attrs = <<aSvc, aKV>>
        /\ Origin(calls[c].h).op = "WithAttrs"
        /\ Origin(Origin(calls[c].h).recv).op = "WithAttrs"
        /\ calls[c].r.Attrs = <<aSvc, aX>>

---------------------------------------------------------------------------
(* C21 *)

\* the With* calls other than WithWriter
KeepsWriterOps ==
    {"WithLevel", "WithoutColor", "WithPrefix", "WithAttrLevel", "WithAttrs",
     "WithGroup"}

\* C21: in the build for Go before 1.21, a handler derived by WithLevel,
\* WithoutColor, WithPrefix, WithAttrLevel, WithAttrs or WithGroup from a
\* receiver whose sink was set with WithWriter writes to the receiver's
\* sink: every Write that Handle makes on it goes to that sink, none to
\* standard output.
C21_WriterRetained ==
    \A n \in 1..Len(derivs) :
        (/\ derivs[n].op \in KeepsWriterOps
         /\ handlers[derivs[n].recv].writer # NilWriter)
            => \A c \in 1..Len(calls) :
                   (calls[c].h = derivs[n].result /\ calls[c].emitted)
                       => /\ \A j \in 1..Len(calls[c].pending) :
                                calls[c].pending[j].w
                                    = handlers[derivs[n].recv].writer
                          /\ \A ch \in ChunksOf(c) :
                                ch[1] = handlers[derivs[n].recv].writer

---------------------------------------------------------------------------
(* C22 *)

RECURSIVE GroupsAt(_)
\* the names of the WithGroup calls that made handlers[i], oldest first
GroupsAt(i) ==
    IF i = 1 THEN <<>>
    ELSE IF Origin(i).op = "WithGroup"
         THEN Append(GroupsAt(Origin(i).recv), Origin(i).arg)
    ELSE GroupsAt(Origin(i).recv)

\* the attribute a (a leaf with a key) under the group names gs
Keyed(gs, a) == [a EXCEPT !.Key = Join(gs \o <<a.Key>>, ".")]

RECURSIVE CarriedAt(_)
\* the attributes of the WithAttrs calls that made handlers[i], each under
\* the group names in force when its call was made
CarriedAt(i) ==
    IF i = 1 THEN <<>>
    ELSE IF Origin(i).op = "WithAttrs"
         THEN CarriedAt(Origin(i).recv)
                  \o [j \in 1..Len(Origin(i).arg) |->
                         Keyed(GroupsAt(Origin(i).recv), Origin(i).arg[j])]
    ELSE CarriedAt(Origin(i).recv)

\* C22: the key of a carried attribute is fixed when its WithAttrs call is
\* made, as the dot-joined group names in force then and its own key: a
\* WithGroup called afterwards leaves the carried attributes as they are,
\* and a line shows the carried attributes under those keys, followed by
\* the record's own attributes under all the group names of the handler.
C22_KeysFixedAtWithAttrs ==
    /\ \A i \in 1..Len(handlers) : handlers[i].attrs = CarriedAt(i)
    /\ \A n \in 1..Len(derivs) :
          derivs[n].op = "WithGroup"
              => handlers[derivs[n].result].attrs
                     = handlers[derivs[n].recv].attrs
    /\ \A c \in 1..Len(calls) :
          calls[c].emitted =>
              LET i == calls[c].h
                  r == calls[c].r
                  own == [j \in 1..Len(r.Attrs) |->
                             Keyed(GroupsAt(i), r.Attrs[j])]
              IN  \A line \in LinesOf(c) :
                      line = LineWith(i, r, r.Message,
                                      AttrText(i, CarriedAt(i) \o own, {}))

\* WithAttrs(a).WithGroup(G).WithAttrs(b).WithGroup(H) logging c: the line
\* has the keys a, G.b and G.H.c
C22_Witness ==
    \E c \in 1..Len(calls) :
        /\ Done(c)
        /\ ChunksOf(c) # {}
        /\ calls[c].r.Attrs = <<aC>>
        /\ handlers[calls[c].h].groups = <<"G", "H">>
        /\ handlers[calls[c].h].attrs = <<aA, Attr("G.b", IntValue(1))>>
        /\ LET i == calls[c].h IN
           /\ Origin(i).op = "WithGroup"
           /\ Origin(Origin(i).recv).op = "WithAttrs"
           /\ Origin(Origin(Origin(i).recv).recv).op = "WithGroup"
           /\ \A line \in LinesOf(c) :
                 line = LineWith(i, calls[c].r, "started",
                            AttrText(i, <<aA, Attr("G.b", IntValue(1)),
                                          Attr("G.H.c", IntValue(1))>>, {}))

---------------------------------------------------------------------------
(* C23 *)

\* the keys the check of Handle looks up for a record: those of the carried
\* attributes as stored, and those of the record's attributes as passed
MatchKeys(i, r) ==
    { a.Key : a \in Range(handlers[i].attrs) \cup Range(r.Attrs) }

\* C23: with overrides registered, a record below the minimum level is
\* emitted exactly when an override matches a carried attribute under its
\* stored, flattened key, or an attribute of the record as it was passed:
\* its top-level key and its unresolved value, without the group prefix
\* and without looking inside a group value.  The keys an override can
\* match are the stored keys of the carried attributes and the top-level
\* keys of the record's attributes.
C23_MatchableKeys ==
    \A c \in 1..Len(calls) :
        (Done(c) /\ BelowMin(c) /\ Table(calls[c].h) # EmptyMap) =>
            (calls[c].emitted <=>
                \E k \in MatchKeys(calls[c].h, calls[c].r) :
                    \E a \in Range(handlers[calls[c].h].attrs)
                                 \cup Range(calls[c].r.Attrs) :
                        /\ a.Key = k
                        /\ OverrideFor(calls[c].h, a, calls[c].r.Level))

---------------------------------------------------------------------------
(* C24 *)

\* the string value of the last attribute of the prefix key among as, the
\* empty string when there is none
LastPrefix(i, as) ==
    LET at == { j \in 1..Len(as) :
                  /\ handlers[i].prefixName # <<>>
                  /\ as[j].Key = handlers[i].prefixName[1] }
    IN  IF at = {} THEN ""
        ELSE ValueString(as[CHOOSE j \in at : \A k \in at : k <= j].Value)

\* C24: the message prefix of a line is the string value of the last
\* attribute of the prefix key in rendering order, the carried attributes
\* first and then the flattened attributes of the record, so that an
\* attribute of the record overrides a carried one; when that value is the
\* empty string the message column is the message alone, without ": ".
\* (Which attributes of the prefix key appear in the attribute text is left
\* open here.)
C24_LastPrefixWins ==
    \A c \in 1..Len(calls) :
        calls[c].emitted =>
            LET i == calls[c].h
                r == calls[c].r
                as == AttrsInOrder(i, r)
                pfxAt == { j \in 1..Len(as) :
                             /\ handlers[i].prefixName # <<>>
                             /\ as[j].Key = handlers[i].prefixName[1] }
                pfx == LastPrefix(i, as)
                msg == IF pfx = "" THEN r.Message
                       ELSE pfx \o ": " \o r.Message
            IN  \A line \in LinesOf(c) :
                    \E skip \in SUBSET pfxAt :
                        line = LineWith(i, r, msg, AttrText(i, as, skip))

\* a handler that carries svc=api logs a record with svc=v and then svc=w:
\* the line written has the message "w: started"
C24_Witness ==
    \E c \in 1..Len(calls) :
        /\ Done(c)
        /\ ChunksOf(c) # {}
        /\ handlers[calls[c].h].prefixName = <<"svc">>
        /\ handlers[calls[c].h].attrs = <<aSvc>>
        /\ calls[c].r.Attrs = <<aSvcV, aX, aSvcW>>
        /\ \A line \in LinesOf(c) :
              \E skip \in SUBSET {1, 2, 4} :
                  line = LineWith(calls[c].h, calls[c].r, "w: started",
                             AttrText(calls[c].h,
                                      <<aSvc, aSvcV, aX, aSvcW>>, skip))

=============================================================================
